---- MODULE Spec2Model ----
(***************************************************************************)
(* A model of uhub's user manager (src/usermanager.c): the registry of     *)
(* logged-in users, the SID allocator, the lookups, the user-list and quit *)
(* broadcasts, the bulk eviction at shutdown and the statistics sampler.   *)
(*                                                                         *)
(* The registry's counters are C unsigned integers (count and count_peak   *)
(* are printed with %zu, usermanager.c:62-64), so ++, --, += and -= wrap.  *)
(* The model keeps the wrap-around at a scaled-down width.                 *)
(***************************************************************************)
EXTENDS Integers, Sequences, FiniteSets, TLC

(***************************************************************************)
(* Bounds of the model.                                                    *)
(***************************************************************************)
\* Number of user objects.
NUsers == 3
\* Width in bits of the unsigned counters (size_t / uint64_t, scaled down).
WordBits == 3
\* The largest value of sid_t (an unsigned integer type, scaled down).
SidMax == 3
\* Number of user_manager_add / user_manager_remove calls in an API run.
MaxOps == 5

\* Number of users that ask for the user list.
NTargets == 2
\* Bytes the network layer counts in one direction during a run.
MaxBytes == 11

Users == 1..NUsers
Targets == 1..(IF NTargets < NUsers THEN NTargets ELSE NUsers)
WordMod == 2 ^ WordBits
SidMod == SidMax + 1
\* Number of SID allocations in a run: enough to wrap sid_t and come back to 1.
MaxAlloc == SidMod + 1

(***************************************************************************)
(* The fields of struct user that the user manager reads.  cid, nick and   *)
(* limits are what the client declared; several clients may declare the    *)
(* same cid or nick.                                                       *)
(***************************************************************************)
CidOf(u) == IF u % 2 = 1 THEN "CIDA" ELSE "CIDB"
NickOf(u) == IF u <= 2 THEN "alice" ELSE "bob"
SharedSizeOf(u) == (3 * u) % WordMod
SharedFilesOf(u) == u % WordMod
Cids == {"CIDA", "CIDB", "CIDC"}
Nicks == {"alice", "bob", "carol"}

NoUser == 0

VARIABLES
    users,       \* hub->users: [list, count, count_peak, shared_size, shared_files, free_sid]
    sid,         \* user->id.sid of every user object
    conn,        \* the user objects that hold an allocated sid (connected clients)
    h_ops,       \* history: number of add / remove calls so far
    h_addok,     \* history: every add so far was of a user not registered at the time
    h_rmok,      \* history: every remove so far was of a user registered at the time
    h_max,       \* history: the largest value count has taken so far
    h_prev,      \* history: the registry as it was before the last call
    h_last,      \* history: the name of the last call
    h_sids,      \* history: the values returned by user_manager_get_free_sid, in order
    h_stamp,     \* history: for every registered user, a stamp that grows with every registration
    logged,      \* the users for which user_is_logged_in() holds
    flag_user_list,   \* the users whose flag_user_list is set
    send_queue_size,  \* user->send_queue_size of every user
    h_target,    \* history: the target of the last send_user_list
    h_routed,    \* history: the route_to_user calls of that send_user_list, in order
    h_ret,       \* history: the value that send_user_list returned
    h_quit,      \* history: the sid and quit_reason of the user of the last send_quit_message
    h_bcast,     \* history: the route_to_all calls of that send_quit_message, in order
    credentials, \* user->credentials of every user
    released,    \* user_manager_shutdown has freed hub->users
    ev_timer,    \* hub->ev_timer: the number of pending instances of the statistics timer
    h_events,    \* history: what user_manager_shutdown called, in order
    stats,       \* hub->stats
    net,         \* the network layer's counters: since the last reset, and since the start
    h_stats,     \* history: hub->stats and the counters before the last user_manager_update_stats
    hub_users,   \* hub->users: "NULL" until user_manager_init installs the registry
    h_init,      \* history: the call of user_manager_init, its allocations and what it did
    h_tick,      \* history: flips every time the timer callback has run
    h_trace      \* history: the last two add / remove calls, the latest last

\* The fields of the user objects that only the broadcasts touch.
userVars == <<logged, flag_user_list, send_queue_size>>
\* What the last broadcast did.
outVars == <<h_target, h_routed, h_ret, h_quit, h_bcast>>

\* The hub's shutdown and statistics.
hubVars == <<credentials, released, ev_timer, h_events, stats, net, h_stats>>

\* The hub's start and the timer callback's history.
lifeVars == <<hub_users, h_init, h_tick>>

vars == <<users, sid, conn, h_ops, h_addok, h_rmok, h_max, h_prev, h_last, h_sids, h_stamp,
          userVars, outVars, hubVars, lifeVars, h_trace>>

(***************************************************************************)
(* Helpers.                                                                *)
(***************************************************************************)
MAX(a, b) == IF a > b THEN a ELSE b

Wrap(x) == x % WordMod

RECURSIVE SumOver(_, _)
SumOver(f(_), s) == IF s = <<>> THEN 0 ELSE f(Head(s)) + SumOver(f, Tail(s))

Range(s) == {s[i] : i \in DOMAIN s}

\* The position of the first node of the list that holds u, 0 when none does.
FirstIndex(s, u) ==
    IF \E i \in DOMAIN s : s[i] = u
    THEN CHOOSE i \in DOMAIN s : s[i] = u /\ \A j \in 1..(i - 1) : s[j] # u
    ELSE 0

(***************************************************************************)
(* The linked list (list.c is not part of src/; modelled from the spec's   *)
(* "insertion-ordered collection": append at the tail, remove the first    *)
(* node holding the pointer, no-op when there is none).                    *)
(***************************************************************************)
list_append(l, u) == Append(l, u)

list_remove(l, u) ==
    LET i == FirstIndex(l, u)
    IN  IF i = 0 THEN l ELSE SubSeq(l, 1, i - 1) \o SubSeq(l, i + 1, Len(l))

(***************************************************************************)
(* user_manager_init: a zeroed struct user_manager with an empty list and  *)
(* free_sid = 1.                                                           *)
(***************************************************************************)
user_manager_init ==
    [list |-> <<>>, count |-> 0, count_peak |-> 0,
     shared_size |-> 0, shared_files |-> 0, free_sid |-> 1]

(***************************************************************************)
(* The statistics timer.  libevent is not part of src/; modelled from the  *)
(* spec's "periodic timer primitive: arm(interval, callback), cancel()".   *)
(* A timer is the number of its pending instances in the event loop:       *)
(* evtimer_set prepares the event and arms nothing, evtimer_add arms one   *)
(* instance, event_del cancels the pending instance.  The event loop takes *)
(* a pending instance out before it runs the callback.                     *)
(***************************************************************************)
evtimer_set(timer) == timer
evtimer_add(timer) == timer + 1
event_del(timer) == IF timer > 0 THEN timer - 1 ELSE timer
event_fire(timer) == timer - 1

(***************************************************************************)
(* The call user_manager_init(hub).  malloc_ok and list_ok tell whether    *)
(* hub_malloc_zero and list_create return an object.  The result of        *)
(* hub_malloc_zero is used unchecked (lines 86-89): when it is NULL the    *)
(* store to users->list goes through a null pointer, which is undefined    *)
(* behaviour; the hub is built for hosted systems, where that store faults *)
(* and the process is killed there, before anything is returned (returned  *)
(* is FALSE, nothing is installed or armed).  Otherwise a failed           *)
(* list_create returns -1 with nothing installed and nothing armed, and    *)
(* success installs the registry, arms the timer and returns 0.  What the  *)
(* call did to the hub is recorded as events, in order.                    *)
(***************************************************************************)
NoRegistry ==
    [list |-> <<>>, count |-> 0, count_peak |-> 0,
     shared_size |-> 0, shared_files |-> 0, free_sid |-> 0]

InitResult(returned, ret, hu, um, timer, events) ==
    [returned |-> returned, ret |-> ret, hub_users |-> hu, um |-> um,
     ev_timer |-> timer, events |-> events]

user_manager_init_call(malloc_ok, list_ok, timer) ==
    IF ~malloc_ok THEN InitResult(FALSE, 0, "NULL", NoRegistry, timer, <<>>)
    ELSE IF ~list_ok THEN InitResult(TRUE, 0 - 1, "NULL", NoRegistry, timer, <<>>)
    ELSE InitResult(TRUE, 0, "valid", user_manager_init, evtimer_add(evtimer_set(timer)),
                    <<"hub_users_set", "evtimer_add">>)

(***************************************************************************)
(* user_manager_add and user_manager_remove: the registry after the call.  *)
(***************************************************************************)
user_manager_add_nopeak(um, u) ==
    [um EXCEPT !.list = list_append(@, u),
               !.count = Wrap(@ + 1),
               !.shared_size = Wrap(@ + SharedSizeOf(u)),
               !.shared_files = Wrap(@ + SharedFilesOf(u))]

user_manager_add(um, u) ==
    LET c == Wrap(um.count + 1)
    IN  [um EXCEPT !.list = list_append(@, u),
                   !.count = c,
                   !.count_peak = MAX(c, @),
                   !.shared_size = Wrap(@ + SharedSizeOf(u)),
                   !.shared_files = Wrap(@ + SharedFilesOf(u))]

user_manager_remove_nocount(um, u) ==
    [um EXCEPT !.list = list_remove(@, u),
               !.shared_size = Wrap(@ - SharedSizeOf(u)),
               !.shared_files = Wrap(@ - SharedFilesOf(u))]

user_manager_remove_pasted(um, u) ==
    [um EXCEPT !.list = list_remove(@, u),
               !.count = Wrap(@ - 1),
               !.shared_size = Wrap(@ - SharedSizeOf(u)),
               !.shared_files = Wrap(@ - SharedSizeOf(u))]

\* remove that does nothing for a user that is not in the list.
user_manager_remove_checked(um, u) ==
    IF FirstIndex(um.list, u) = 0 THEN um
    ELSE [um EXCEPT !.list = list_remove(@, u),
                    !.count = Wrap(@ - 1),
                    !.shared_size = Wrap(@ - SharedSizeOf(u)),
                    !.shared_files = Wrap(@ - SharedFilesOf(u))]

user_manager_remove(um, u) ==
    [um EXCEPT !.list = list_remove(@, u),
               !.count = Wrap(@ - 1),
               !.shared_size = Wrap(@ - SharedSizeOf(u)),
               !.shared_files = Wrap(@ - SharedFilesOf(u))]

(***************************************************************************)
(* user_manager_get_free_sid: the value returned and the registry after    *)
(* the call.  The scan of the #if 0 block is compiled out: the counter is  *)
(* returned and post-incremented, and sid_t wraps.                         *)
(***************************************************************************)
user_manager_get_free_sid_stuck(um) ==
    [ret |-> um.free_sid, um |-> um]

user_manager_get_free_sid(um) ==
    [ret |-> um.free_sid,
     um  |-> [um EXCEPT !.free_sid = (@ + 1) % SidMod]]

(***************************************************************************)
(* get_user_by_sid, get_user_by_cid, get_user_by_nick: walk the list from  *)
(* its first node and return the first user whose field equals the key,    *)
(* NULL (NoUser) when the walk reaches the end.  ids is user->id.sid of    *)
(* every user.                                                             *)
(***************************************************************************)
RECURSIVE get_user_by_sid_from(_, _, _)
get_user_by_sid_from(l, ids, key) ==
    IF l = <<>> THEN NoUser
    ELSE IF ids[Head(l)] = key THEN Head(l)
    ELSE get_user_by_sid_from(Tail(l), ids, key)

RECURSIVE get_user_by_sid_last(_, _, _)
get_user_by_sid_last(um, ids, key) ==
    IF um.list = <<>> THEN NoUser
    ELSE IF ids[um.list[Len(um.list)]] = key THEN um.list[Len(um.list)]
    ELSE get_user_by_sid_last([um EXCEPT !.list = SubSeq(@, 1, Len(@) - 1)], ids, key)

get_user_by_sid(um, ids, key) == get_user_by_sid_from(um.list, ids, key)

RECURSIVE get_user_by_cid_from(_, _)
get_user_by_cid_from(l, key) ==
    IF l = <<>> THEN NoUser
    ELSE IF CidOf(Head(l)) = key THEN Head(l)
    ELSE get_user_by_cid_from(Tail(l), key)

get_user_by_cid(um, key) == get_user_by_cid_from(um.list, key)

RECURSIVE get_user_by_nick_from(_, _)
get_user_by_nick_from(l, key) ==
    IF l = <<>> THEN NoUser
    ELSE IF NickOf(Head(l)) = key THEN Head(l)
    ELSE get_user_by_nick_from(Tail(l), key)

get_user_by_nick(um, key) == get_user_by_nick_from(um.list, key)

(***************************************************************************)
(* send_user_list.  results[k] is what the k-th route_to_user call of the  *)
(* loop returns (0 on failure); lg is the set of users for which           *)
(* user_is_logged_in holds.  The loop yields the calls made, in order:     *)
(* every logged-in user of the list until a call returns 0.                *)
(***************************************************************************)
RECURSIVE send_user_list_loop(_, _, _, _, _)
send_user_list_loop(l, lg, target, results, calls) ==
    IF l = <<>> THEN calls
    ELSE IF Head(l) \in lg
         THEN LET ret == results[Len(calls) + 1]
                  now == Append(calls, [to |-> target, info |-> Head(l), ret |-> ret])
              IN  IF ret = 0 THEN now
                  ELSE send_user_list_loop(Tail(l), lg, target, results, now)
         ELSE send_user_list_loop(Tail(l), lg, target, results, calls)

\* The loop without its break.
RECURSIVE send_user_list_loop_nobreak(_, _, _, _, _)
send_user_list_loop_nobreak(l, lg, target, results, calls) ==
    IF l = <<>> THEN calls
    ELSE IF Head(l) \in lg
         THEN send_user_list_loop_nobreak(Tail(l), lg, target, results,
                  Append(calls, [to |-> target, info |-> Head(l),
                                 ret |-> results[Len(calls) + 1]]))
         ELSE send_user_list_loop_nobreak(Tail(l), lg, target, results, calls)

send_user_list_nobreak(um, lg, target, results) ==
    send_user_list_loop_nobreak(um.list, lg, target, results, <<>>)

\* The route_to_user calls of send_user_list(target).
send_user_list_calls(um, lg, target, results) ==
    send_user_list_loop(um.list, lg, target, results, <<>>)

\* The value send_user_list returns: 1 when no call was made, else the
\* result of the last call.
send_user_list_ret(calls) ==
    IF calls = <<>> THEN 1 ELSE calls[Len(calls)].ret

\* flag_user_list after send_user_list(target): set at entry, unset at the
\* end when target->send_queue_size is 0.  flags is the set of users whose
\* flag is set, queue the target's send_queue_size when the loop is over.
\* The flag cleared whatever the queue holds.
send_user_list_flags_cleared(flags, target, queue) ==
    (flags \cup {target}) \ {target}

send_user_list_flags(flags, target, queue) ==
    IF queue = 0 THEN (flags \cup {target}) \ {target} ELSE flags \cup {target}

(***************************************************************************)
(* send_quit_message.  sid_to_string (sid.c, not part of src/) is modelled *)
(* from the spec's "session identifier string" as the four base-32 digits  *)
(* of the sid, most significant first; string_to_sid reads them back.  A   *)
(* string is a sequence of characters.                                     *)
(***************************************************************************)
BASE32_ALPHABET ==
    <<"A", "B", "C", "D", "E", "F", "G", "H", "I", "J", "K", "L", "M", "N", "O", "P",
      "Q", "R", "S", "T", "U", "V", "W", "X", "Y", "Z", "2", "3", "4", "5", "6", "7">>
SidBase == Len(BASE32_ALPHABET)
SidDigits == Len(<<1, 2, 3, 4>>)

sid_to_string(s) ==
    [i \in 1..SidDigits |->
        BASE32_ALPHABET[1 + ((s \div (SidBase ^ (SidDigits - i))) % SidBase)]]

Base32Digit(c) == (CHOOSE k \in DOMAIN BASE32_ALPHABET : BASE32_ALPHABET[k] = c) - 1

string_to_sid(str) ==
    SumOver(LAMBDA i : Base32Digit(str[i]) * (SidBase ^ (SidDigits - i)),
            [i \in 1..SidDigits |-> i])

ADC_CMD_IQUI == "IQUI"
ADC_QUI_FLAG_DISCONNECT == <<"D", "I">>
QuitReasons == {"quit_unknown", "quit_disconnected", "quit_kicked", "quit_banned", "quit_timeout"}

\* The message that adc_msg_construct and adc_msg_add_argument build.
adc_msg_construct(cmd) == [cmd |-> cmd, args |-> <<>>]
adc_msg_add_argument(msg, arg) == [msg EXCEPT !.args = Append(@, arg)]

\* The flag is added for a banned user only.
send_quit_message_banonly(leaving_sid, reason) ==
    LET c1 == adc_msg_add_argument(adc_msg_construct(ADC_CMD_IQUI), sid_to_string(leaving_sid))
        c2 == IF reason = "quit_banned"
              THEN adc_msg_add_argument(c1, ADC_QUI_FLAG_DISCONNECT)
              ELSE c1
    IN  <<c2>>

\* The route_to_all calls of send_quit_message(leaving), given leaving's
\* id.sid and quit_reason.
send_quit_message(leaving_sid, reason) ==
    LET c1 == adc_msg_add_argument(adc_msg_construct(ADC_CMD_IQUI), sid_to_string(leaving_sid))
        c2 == IF reason = "quit_banned" \/ reason = "quit_kicked"
              THEN adc_msg_add_argument(c1, ADC_QUI_FLAG_DISCONNECT)
              ELSE c1
    IN  <<c2>>

(***************************************************************************)
(* user_manager_shutdown.  What it calls is recorded as events; a          *)
(* user_destroy event carries the credentials the user has when            *)
(* user_destroy is called, a list_destroy event the length of the list at  *)
(* that time.  list_clear (list.c, not part of src/) calls the callback on *)
(* every node in order and leaves the list empty.                          *)
(***************************************************************************)
Event(ev, user, cred, len) == [ev |-> ev, user |-> user, credentials |-> cred, len |-> len]

\* user_destroy before the credentials are reset.
clear_user_list_callback_late(ptr, creds) ==
    IF ptr # NoUser
    THEN [credentials |-> [creds EXCEPT ![ptr] = "cred_none"],
          events |-> <<Event("user_destroy", ptr, creds[ptr], 0)>>]
    ELSE [credentials |-> creds, events |-> <<>>]

clear_user_list_callback(ptr, creds) ==
    IF ptr # NoUser
    THEN LET marked == [creds EXCEPT ![ptr] = "cred_none"]
         IN  [credentials |-> marked,
              events |-> <<Event("user_destroy", ptr, marked[ptr], 0)>>]
    ELSE [credentials |-> creds, events |-> <<>>]

RECURSIVE list_clear(_, _, _)
list_clear(l, creds, events) ==
    IF l = <<>> THEN [list |-> l, credentials |-> creds, events |-> events]
    ELSE LET r == clear_user_list_callback(Head(l), creds)
         IN  list_clear(Tail(l), r.credentials, events \o r.events)

\* Shutdown that leaves the timer armed.
user_manager_shutdown_nodel(um, creds, timer) ==
    LET cleared == list_clear(um.list, creds, <<>>)
    IN  [um |-> [um EXCEPT !.list = cleared.list],
         credentials |-> cleared.credentials,
         ev_timer |-> timer,
         events |-> cleared.events
                    \o <<Event("list_destroy", NoUser, "cred_none", Len(cleared.list)),
                         Event("hub_free", NoUser, "cred_none", Len(cleared.list))>>]

\* Shutdown that cancels the timer last.
user_manager_shutdown_late(um, creds, timer) ==
    LET cleared == list_clear(um.list, creds, <<>>)
    IN  [um |-> [um EXCEPT !.list = cleared.list],
         credentials |-> cleared.credentials,
         ev_timer |-> event_del(timer),
         events |-> cleared.events
                    \o <<Event("list_destroy", NoUser, "cred_none", Len(cleared.list)),
                         Event("hub_free", NoUser, "cred_none", Len(cleared.list)),
                         Event("event_del", NoUser, "cred_none", Len(cleared.list))>>]

\* timer is hub->ev_timer at the call; the result holds it after event_del.
user_manager_shutdown(um, creds, timer) ==
    LET deleted == <<Event("event_del", NoUser, "cred_none", Len(um.list))>>
        cleared == list_clear(um.list, creds, deleted)
    IN  [um |-> [um EXCEPT !.list = cleared.list],
         credentials |-> cleared.credentials,
         ev_timer |-> event_del(timer),
         events |-> cleared.events
                    \o <<Event("list_destroy", NoUser, "cred_none", Len(cleared.list)),
                         Event("hub_free", NoUser, "cred_none", Len(cleared.list))>>]

(***************************************************************************)
(* user_manager_update_stats.  n holds the counters net_stats_get yields:  *)
(* intermediate (since the last reset) and total.  The assignments are     *)
(* made in the order of the code; the second assignment to net_tx_peak is  *)
(* the code's.  net_stats_reset zeroes the intermediate counters.          *)
(***************************************************************************)
TIMEOUT_STATS == 5

ZeroStats ==
    [net_tx |-> 0, net_rx |-> 0, net_tx_peak |-> 0, net_rx_peak |-> 0,
     net_tx_total |-> 0, net_rx_total |-> 0]

net_stats_reset(n) == [n EXCEPT !.intermediate = [tx |-> 0, rx |-> 0]]

\* The sample without the reset of the collector.
user_manager_update_stats_noreset(st, n) ==
    LET factor == TIMEOUT_STATS
        s1 == [st EXCEPT !.net_tx = n.intermediate.tx \div factor]
        s2 == [s1 EXCEPT !.net_rx = n.intermediate.rx \div factor]
        s3 == [s2 EXCEPT !.net_tx_peak = MAX(s2.net_tx, s2.net_tx_peak)]
        s4 == [s3 EXCEPT !.net_tx_peak = MAX(s3.net_rx, s3.net_rx_peak)]
        s5 == [s4 EXCEPT !.net_tx_total = n.total.tx]
        s6 == [s5 EXCEPT !.net_rx_total = n.total.rx]
    IN  [stats |-> s6, net |-> n]

user_manager_update_stats(st, n) ==
    LET factor == TIMEOUT_STATS
        s1 == [st EXCEPT !.net_tx = n.intermediate.tx \div factor]
        s2 == [s1 EXCEPT !.net_rx = n.intermediate.rx \div factor]
        s3 == [s2 EXCEPT !.net_tx_peak = MAX(s2.net_tx, s2.net_tx_peak)]
        s4 == [s3 EXCEPT !.net_tx_peak = MAX(s3.net_rx, s3.net_rx_peak)]
        s5 == [s4 EXCEPT !.net_tx_total = n.total.tx]
        s6 == [s5 EXCEPT !.net_rx_total = n.total.rx]
    IN  [stats |-> s6, net |-> net_stats_reset(n)]

(***************************************************************************)
(* timer_statistics, the timer's callback: one user_manager_update_stats,  *)
(* then evtimer_set and evtimer_add arm the timer again.  timer is         *)
(* hub->ev_timer when the callback starts.                                 *)
(***************************************************************************)
\* The callback without the evtimer_add.
timer_statistics_norearm(st, n, timer) ==
    LET r == user_manager_update_stats(st, n)
    IN  [stats |-> r.stats, net |-> r.net, ev_timer |-> evtimer_set(timer)]

\* The callback arming the timer before and after the sample.
timer_statistics_twice(st, n, timer) ==
    LET r == user_manager_update_stats(st, n)
    IN  [stats |-> r.stats, net |-> r.net,
         ev_timer |-> evtimer_add(evtimer_set(evtimer_add(evtimer_set(timer))))]

timer_statistics(st, n, timer) ==
    LET r == user_manager_update_stats(st, n)
    IN  [stats |-> r.stats, net |-> r.net, ev_timer |-> evtimer_add(evtimer_set(timer))]

Registered(u) == u \in Range(users.list)

(***************************************************************************)
(* Initial state: user_manager_init has returned, nobody is connected.     *)
(***************************************************************************)
Init ==
    /\ users = user_manager_init
    /\ sid = [u \in Users |-> 0]
    /\ conn = {}
    /\ h_ops = 0
    /\ h_addok = TRUE
    /\ h_rmok = TRUE
    /\ h_max = 0
    /\ h_prev = user_manager_init
    /\ h_last = "init"
    /\ h_sids = <<>>
    /\ h_stamp = [u \in Users |-> 0]
    /\ logged = {}
    /\ flag_user_list = {}
    /\ send_queue_size = [u \in Users |-> 0]
    /\ h_target = NoUser
    /\ h_routed = <<>>
    /\ h_ret = 1
    /\ h_quit = [sid |-> 0, quit_reason |-> "quit_unknown"]
    /\ h_bcast = <<>>
    /\ credentials = [u \in Users |-> "cred_none"]
    /\ released = FALSE
    /\ ev_timer = user_manager_init_call(TRUE, TRUE, 0).ev_timer
    /\ h_events = <<>>
    /\ stats = ZeroStats
    /\ net = [intermediate |-> [tx |-> 0, rx |-> 0], total |-> [tx |-> 0, rx |-> 0]]
    /\ h_stats = [stats |-> ZeroStats, intermediate |-> [tx |-> 0, rx |-> 0]]
    /\ hub_users = user_manager_init_call(TRUE, TRUE, 0).hub_users
    /\ h_init = [called |-> TRUE, malloc_ok |-> TRUE, list_ok |-> TRUE,
                 returned |-> user_manager_init_call(TRUE, TRUE, 0).returned,
                 ret |-> user_manager_init_call(TRUE, TRUE, 0).ret,
                 events |-> user_manager_init_call(TRUE, TRUE, 0).events]
    /\ h_tick = FALSE
    /\ h_trace = <<>>

(***************************************************************************)
(* The registry's API driven by an arbitrary caller: any user may be added *)
(* or removed at any time, registered or not.                              *)
(***************************************************************************)
LastTwo(t) == IF Len(t) > 2 THEN Tail(t) ELSE t

ApiAdd(u) ==
    /\ h_ops < MaxOps
    /\ users' = user_manager_add(users, u)
    /\ h_ops' = h_ops + 1
    /\ h_addok' = (h_addok /\ ~Registered(u))
    /\ h_rmok' = h_rmok
    /\ h_max' = MAX(h_max, users'.count)
    /\ h_prev' = users
    /\ h_trace' = LastTwo(Append(h_trace, [op |-> "add", user |-> u, before |-> users]))
    /\ h_last' = "add"
    /\ UNCHANGED hubVars
    /\ UNCHANGED lifeVars
    /\ UNCHANGED <<sid, conn, h_sids, h_stamp, userVars, outVars>>

ApiRemove(u) ==
    /\ h_ops < MaxOps
    /\ users' = user_manager_remove(users, u)
    /\ h_ops' = h_ops + 1
    /\ h_addok' = h_addok
    /\ h_rmok' = (h_rmok /\ Registered(u))
    /\ h_max' = MAX(h_max, users'.count)
    /\ h_prev' = users
    /\ h_trace' = LastTwo(Append(h_trace, [op |-> "remove", user |-> u, before |-> users]))
    /\ h_last' = "remove"
    /\ UNCHANGED hubVars
    /\ UNCHANGED lifeVars
    /\ UNCHANGED <<sid, conn, h_sids, h_stamp, userVars, outVars>>

NextApi ==
    \/ \E u \in Users : ApiAdd(u)
    \/ \E u \in Users : ApiRemove(u)

SpecApi == Init /\ [][NextApi]_vars

(***************************************************************************)
(* Claims about the counters, under SpecApi.                               *)
(***************************************************************************)
\* The caller has kept the contract of C1: no user added while registered,
\* no user removed while not registered.
ContractKept == h_addok /\ h_rmok

\* C1: after any sequence of add and remove calls in which each session is
\* added at most once while registered and remove is only applied to a
\* registered session, count equals the number of sessions in the list.
C1_CountIsListLength == ContractKept => users.count = Len(users.list)

C1_Witness ==
    /\ ContractKept
    /\ h_last = "remove"
    /\ Len(users.list) = 2
    /\ users.count = 2

PeakProperties ==
    /\ users.count_peak >= h_prev.count_peak
    /\ users.count_peak >= users.count
    /\ users.count_peak = h_max

\* C2 as stated: across ANY sequence of add and remove calls from a fresh
\* registry, count_peak never decreases, is at least count after every call
\* and equals the largest value count has taken so far.
C2_Original == PeakProperties

\* C2 as amended: the same, across any sequence of calls in which remove is
\* only applied to a currently registered session.
C2_PeakTracksCount == h_rmok => PeakProperties

C2_Witness ==
    /\ h_rmok
    /\ h_last = "add"
    /\ h_prev.count_peak = 2
    /\ h_prev.count = 1
    /\ users.count_peak = 2
    /\ users.count = 2

\* C3 as stated: after ANY sequence of add and remove calls, the shared_size
\* total equals the sum of limits.shared_size over the registered sessions,
\* and the shared_files total the sum of limits.shared_files.
C3_Original ==
    /\ users.shared_size = SumOver(SharedSizeOf, users.list)
    /\ users.shared_files = SumOver(SharedFilesOf, users.list)

\* C3 as amended: after any sequence of calls in which remove is only
\* applied to a currently registered session, each total equals the sum over
\* the registered sessions modulo 2^w, w being the width of the total.
C3_TotalsAreSums ==
    h_rmok =>
        /\ users.shared_size = Wrap(SumOver(SharedSizeOf, users.list))
        /\ users.shared_files = Wrap(SumOver(SharedFilesOf, users.list))

\* Two sessions registered after a removal, their declared sizes summing
\* past the width of the total.
C3_Witness ==
    /\ h_rmok
    /\ h_last = "remove"
    /\ Len(users.list) = 2
    /\ SumOver(SharedSizeOf, users.list) >= WordMod
    /\ users.shared_size = Wrap(SumOver(SharedSizeOf, users.list))

(***************************************************************************)
(* The hub's use of the registry (spec section 3, Lifecycle): a client     *)
(* connects and is given a SID, logs in and is registered once, and is     *)
(* removed when it disconnects, if it was registered.                      *)
(***************************************************************************)
\* Registration stamps: a user that registers is stamped later than every
\* registered user; when a user leaves, the later stamps move down by one,
\* which keeps their order.
LaterStamp ==
    LET S == {h_stamp[v] : v \in {w \in Users : Registered(w)}} \cup {0}
    IN  1 + CHOOSE m \in S : \A x \in S : x <= m

StampsWithout(u) ==
    [v \in Users |->
        IF v = u THEN 0
        ELSE IF h_stamp[u] > 0 /\ h_stamp[v] > h_stamp[u] THEN h_stamp[v] - 1
        ELSE h_stamp[v]]

Connect(u) ==
    /\ u \notin conn
    /\ Len(h_sids) < MaxAlloc
    /\ LET r == user_manager_get_free_sid(users)
       IN  /\ users' = r.um
           /\ sid' = [sid EXCEPT ![u] = r.ret]
           /\ h_sids' = Append(h_sids, [ret |-> r.ret, after |-> r.um.free_sid])
    /\ conn' = conn \cup {u}
    /\ h_last' = "get_free_sid"
    /\ UNCHANGED hubVars
    /\ UNCHANGED lifeVars
    /\ UNCHANGED h_trace
    /\ UNCHANGED <<h_ops, h_addok, h_rmok, h_max, h_prev, h_stamp, userVars, outVars>>

Login(u) ==
    /\ u \in conn
    /\ ~Registered(u)
    /\ users' = user_manager_add(users, u)
    /\ h_stamp' = [h_stamp EXCEPT ![u] = LaterStamp]
    /\ h_last' = "add"
    /\ UNCHANGED hubVars
    /\ UNCHANGED lifeVars
    /\ UNCHANGED h_trace
    /\ UNCHANGED <<sid, conn, h_ops, h_addok, h_rmok, h_max, h_prev, h_sids, userVars, outVars>>

Disconnect(u) ==
    /\ u \in conn
    /\ users' = IF Registered(u) THEN user_manager_remove(users, u) ELSE users
    /\ conn' = conn \ {u}
    /\ sid' = [sid EXCEPT ![u] = 0]
    /\ h_stamp' = StampsWithout(u)
    /\ h_last' = IF Registered(u) THEN "remove" ELSE "drop"
    /\ UNCHANGED hubVars
    /\ UNCHANGED lifeVars
    /\ UNCHANGED h_trace
    /\ UNCHANGED <<h_ops, h_addok, h_rmok, h_max, h_prev, h_sids, userVars, outVars>>

NextHub ==
    \/ \E u \in Users : Connect(u)
    \/ \E u \in Users : Login(u)
    \/ \E u \in Users : Disconnect(u)

SpecHub == Init /\ [][NextHub]_vars

(***************************************************************************)
(* Claims about the SID allocator and the lookups, under SpecHub.          *)
(***************************************************************************)
\* C4: in every reachable state of any interleaving of get_free_sid, add (of
\* a session carrying the sid it was allocated) and remove, no two
\* registered sessions carry the same sid, sid_t being of bounded width.
C4_SidsUnique ==
    \A i, j \in DOMAIN users.list :
        i # j => sid[users.list[i]] # sid[users.list[j]]

\* The values returned by the first n calls are strictly increasing (hence
\* pairwise distinct) and start at 1.
ReturnsIncreasingFromOne(n) ==
    /\ n >= 1 => h_sids[1].ret = 1
    /\ \A i, j \in 1..n : i < j => h_sids[i].ret < h_sids[j].ret

\* C5 as stated: on a fresh registry, N consecutive get_free_sid calls
\* return N pairwise distinct, strictly increasing values starting at 1, and
\* each call advances free_sid by exactly one, for every N.
C5_Original ==
    /\ ReturnsIncreasingFromOne(Len(h_sids))
    /\ \A i \in DOMAIN h_sids : h_sids[i].after = h_sids[i].ret + 1

\* C5 as amended: the returned values are distinct, strictly increasing and
\* start at 1 for N up to the largest value of sid_t, and each call advances
\* free_sid by one modulo 2^w (w the width of sid_t).
C5_FreshSidsIncrease ==
    /\ ReturnsIncreasingFromOne(IF Len(h_sids) < SidMax THEN Len(h_sids) ELSE SidMax)
    /\ \A i \in DOMAIN h_sids : h_sids[i].after = (h_sids[i].ret + 1) % SidMod
    /\ h_sids # <<>> => users.free_sid = h_sids[Len(h_sids)].after

\* SidMax calls have been made: the last one returned the largest sid.
C5_Witness ==
    /\ Len(h_sids) = SidMax
    /\ h_sids[SidMax].ret = SidMax
    /\ h_last = "get_free_sid"

\* The registered users that match a key, and the answer the claim expects:
\* the match that was registered first, NoUser when nothing matches.
EarliestOf(M, r) ==
    IF M = {} THEN r = NoUser
    ELSE r \in M /\ \A v \in M : h_stamp[r] <= h_stamp[v]

\* C6: for every key, get_user_by_sid / _cid / _nick return the
\* earliest-inserted registered session whose sid / cid / nick equals the
\* key, and NULL exactly when no registered session matches.
C6_LookupsFindEarliest ==
    /\ \A k \in 0..SidMax :
          EarliestOf({u \in Users : Registered(u) /\ sid[u] = k},
                     get_user_by_sid(users, sid, k))
    /\ \A k \in Cids :
          EarliestOf({u \in Users : Registered(u) /\ CidOf(u) = k},
                     get_user_by_cid(users, k))
    /\ \A k \in Nicks :
          EarliestOf({u \in Users : Registered(u) /\ NickOf(u) = k},
                     get_user_by_nick(users, k))

\* Two registered users share a sid, a cid or a nick, the one registered
\* first is not the one with the smaller number, and a removal came last.
C6_Witness ==
    /\ h_last = "remove"
    /\ \E u, v \in Users :
          /\ u < v /\ Registered(u) /\ Registered(v)
          /\ h_stamp[v] < h_stamp[u]
          /\ sid[u] = sid[v]
          /\ get_user_by_sid(users, sid, sid[u]) = v
    /\ \E u, v \in Users :
          /\ u < v /\ Registered(u) /\ Registered(v)
          /\ h_stamp[v] < h_stamp[u]
          /\ NickOf(u) = NickOf(v)
          /\ get_user_by_nick(users, NickOf(u)) = v
    /\ get_user_by_cid(users, "CIDC") = NoUser

(***************************************************************************)
(* The user-list broadcast.  Users join (registered and logged in), stop   *)
(* being logged in while still registered (their state leaves normal), and *)
(* leave; send_user_list may run for any target between these events.      *)
(* route_to_user is the routing layer's: each call may fail (the loop ends *)
(* at the first call that does, so the run is decided by which call, if    *)
(* any, fails first), and the calls may leave bytes in the target's send   *)
(* queue.                                                                  *)
(***************************************************************************)
\* send_queue_size as the code tests it: empty, or not.
QueueSizes == {0, 1}

Join(u) ==
    /\ ~Registered(u)
    /\ users' = user_manager_add(users, u)
    /\ logged' = logged \cup {u}
    /\ h_stamp' = [h_stamp EXCEPT ![u] = LaterStamp]
    /\ h_last' = "add"
    /\ UNCHANGED hubVars
    /\ UNCHANGED lifeVars
    /\ UNCHANGED h_trace
    /\ h_target' = NoUser /\ h_routed' = <<>> /\ h_ret' = 1
    /\ UNCHANGED <<h_quit, h_bcast>>
    /\ UNCHANGED <<sid, conn, h_ops, h_addok, h_rmok, h_max, h_prev, h_sids,
                   flag_user_list, send_queue_size>>

Unlog(u) ==
    /\ u \in logged
    /\ logged' = logged \ {u}
    /\ h_last' = "unlog"
    /\ UNCHANGED hubVars
    /\ UNCHANGED lifeVars
    /\ UNCHANGED h_trace
    /\ h_target' = NoUser /\ h_routed' = <<>> /\ h_ret' = 1
    /\ UNCHANGED <<h_quit, h_bcast>>
    /\ UNCHANGED <<users, sid, conn, h_ops, h_addok, h_rmok, h_max, h_prev, h_sids, h_stamp,
                   flag_user_list, send_queue_size>>

Leave(u) ==
    /\ Registered(u)
    /\ users' = user_manager_remove(users, u)
    /\ logged' = logged \ {u}
    /\ h_stamp' = StampsWithout(u)
    /\ h_last' = "remove"
    /\ UNCHANGED hubVars
    /\ UNCHANGED lifeVars
    /\ UNCHANGED h_trace
    /\ h_target' = NoUser /\ h_routed' = <<>> /\ h_ret' = 1
    /\ UNCHANGED <<h_quit, h_bcast>>
    /\ UNCHANGED <<sid, conn, h_ops, h_addok, h_rmok, h_max, h_prev, h_sids,
                   flag_user_list, send_queue_size>>

SendUserList(target) ==
    \E failing \in 0..Len(users.list), queue \in QueueSizes :
        LET results == [k \in 1..Len(users.list) |-> IF k = failing THEN 0 ELSE 1]
            calls == send_user_list_calls(users, logged, target, results)
        IN  /\ calls = <<>> => queue = send_queue_size[target]
            /\ send_queue_size' = [send_queue_size EXCEPT ![target] = queue]
            /\ flag_user_list' = send_user_list_flags(flag_user_list, target, queue)
            /\ h_target' = target
            /\ h_routed' = calls
            /\ h_ret' = send_user_list_ret(calls)
            /\ h_last' = "send_user_list"
            /\ UNCHANGED hubVars
            /\ UNCHANGED lifeVars
            /\ UNCHANGED h_trace
            /\ UNCHANGED <<users, sid, conn, h_ops, h_addok, h_rmok, h_max, h_prev, h_sids,
                           h_stamp, logged, h_quit, h_bcast>>

NextList ==
    \/ \E u \in Users : Join(u)
    \/ \E u \in Users : Unlog(u)
    \/ \E u \in Users : Leave(u)
    \/ \E u \in Targets : SendUserList(u)

SpecList == Init /\ [][NextList]_vars

(***************************************************************************)
(* Claims about send_user_list, under SpecList.                            *)
(***************************************************************************)
LoggedIn == {u \in Users : Registered(u) /\ u \in logged}
Routed == {h_routed[i].info : i \in DOMAIN h_routed}
Failed == \E i \in DOMAIN h_routed : h_routed[i].ret = 0

\* C7: send_user_list(target) calls route_to_user(target, info) for the
\* logged-in registered sessions in registration order, at most once per
\* session and never for a session that is not logged in; it stops at the
\* first call that fails and returns 0; otherwise it delivers one payload
\* for every logged-in session and returns success; with no logged-in
\* session it delivers nothing and returns success.
C7_UserListDelivery ==
    h_last = "send_user_list" =>
        /\ \A i \in DOMAIN h_routed :
              h_routed[i].to = h_target /\ h_routed[i].info \in LoggedIn
        /\ \A i, j \in DOMAIN h_routed :
              i < j => h_stamp[h_routed[i].info] < h_stamp[h_routed[j].info]
        /\ \A i \in DOMAIN h_routed : h_routed[i].ret = 0 => i = Len(h_routed)
        /\ \A u \in LoggedIn \ Routed :
              Failed /\ h_stamp[u] > h_stamp[h_routed[Len(h_routed)].info]
        /\ IF Failed THEN h_ret = 0 ELSE h_ret # 0 /\ Routed = LoggedIn
        /\ LoggedIn = {} => h_routed = <<>> /\ h_ret # 0

\* Two deliveries, the second failed; the first went to a user with a larger
\* number than the second, and a registered user that is not logged in was
\* passed over.
C7_Witness ==
    /\ h_last = "send_user_list"
    /\ Len(h_routed) = 2
    /\ h_routed[2].ret = 0
    /\ h_ret = 0
    /\ h_routed[1].info > h_routed[2].info
    /\ \E u \in Users : Registered(u) /\ u \notin logged

(***************************************************************************)
(* The quit broadcast.  When a connected user leaves, the hub sets its     *)
(* quit_reason, calls send_quit_message for it and then lets the user go.  *)
(***************************************************************************)
QuitUser(u, reason) ==
    /\ u \in conn
    /\ h_quit' = [sid |-> sid[u], quit_reason |-> reason]
    /\ h_bcast' = send_quit_message(sid[u], reason)
    /\ users' = IF Registered(u) THEN user_manager_remove(users, u) ELSE users
    /\ conn' = conn \ {u}
    /\ sid' = [sid EXCEPT ![u] = 0]
    /\ h_stamp' = StampsWithout(u)
    /\ h_last' = "send_quit_message"
    /\ UNCHANGED hubVars
    /\ UNCHANGED lifeVars
    /\ UNCHANGED h_trace
    /\ UNCHANGED <<h_ops, h_addok, h_rmok, h_max, h_prev, h_sids, userVars,
                   h_target, h_routed, h_ret>>

NextQuit ==
    \/ \E u \in Users : Connect(u)
    \/ \E u \in Users, r \in QuitReasons : QuitUser(u, r)

SpecQuit == Init /\ [][NextQuit]_vars

(***************************************************************************)
(* Claims about send_quit_message, under SpecQuit.                         *)
(***************************************************************************)
\* C8: every call of send_quit_message(leaving) issues exactly one
\* route_to_all broadcast whose payload carries leaving's sid, and the
\* payload carries the forced-disconnect flag if and only if
\* leaving.quit_reason is banned or kicked.
C8_QuitBroadcast ==
    h_last = "send_quit_message" =>
        /\ Len(h_bcast) = 1
        /\ h_bcast[1].cmd = ADC_CMD_IQUI
        /\ Len(h_bcast[1].args) >= 1
        /\ string_to_sid(h_bcast[1].args[1]) = h_quit.sid
        /\ (\E i \in DOMAIN h_bcast[1].args : h_bcast[1].args[i] = ADC_QUI_FLAG_DISCONNECT)
             <=> h_quit.quit_reason \in {"quit_banned", "quit_kicked"}

\* A kicked user with the largest sid has left.
C8_Witness ==
    /\ h_last = "send_quit_message"
    /\ h_quit = [sid |-> SidMax, quit_reason |-> "quit_kicked"]
    /\ h_bcast[1].args = <<sid_to_string(SidMax), ADC_QUI_FLAG_DISCONNECT>>

(***************************************************************************)
(* Shutdown.  Users are registered with the credentials they logged in     *)
(* with and leave; user_manager_shutdown runs once, on whatever is         *)
(* registered then.                                                        *)
(***************************************************************************)
LoginCredentials == {"cred_user", "cred_operator"}

Register(u, cred) ==
    /\ hub_users = "valid"
    /\ ~released
    /\ ~Registered(u)
    /\ users' = user_manager_add(users, u)
    /\ credentials' = [credentials EXCEPT ![u] = cred]
    /\ h_stamp' = [h_stamp EXCEPT ![u] = LaterStamp]
    /\ h_last' = "add"
    /\ UNCHANGED <<sid, conn, h_ops, h_addok, h_rmok, h_max, h_prev, h_sids, userVars, outVars,
                   released, ev_timer, h_events, stats, net, h_stats, lifeVars, h_trace>>

Shutdown ==
    /\ hub_users = "valid"
    /\ ~released
    /\ LET r == user_manager_shutdown(users, credentials, ev_timer)
       IN  /\ users' = r.um
           /\ credentials' = r.credentials
           /\ h_events' = r.events
           /\ ev_timer' = r.ev_timer
    /\ released' = TRUE
    /\ h_prev' = users
    /\ h_stamp' = [u \in Users |-> 0]
    /\ h_last' = "shutdown"
    /\ UNCHANGED <<sid, conn, h_ops, h_addok, h_rmok, h_max, h_sids, userVars, outVars,
                   stats, net, h_stats, lifeVars, h_trace>>

NextShutdown ==
    \/ \E u \in Users, c \in LoginCredentials : Register(u, c)
    \/ \E u \in Users : Leave(u)
    \/ Shutdown

SpecShutdown == Init /\ [][NextShutdown]_vars

(***************************************************************************)
(* Claims about user_manager_shutdown, under SpecShutdown.                 *)
(***************************************************************************)
EventsAt(ev) == {i \in DOMAIN h_events : h_events[i].ev = ev}

\* C9: user_manager_shutdown invokes user_destroy exactly once for each
\* registered session, with that session's credentials already set to
\* cred_none, and the list is empty before it is released.
C9_ShutdownEvictsAll ==
    h_last = "shutdown" =>
        /\ \A u \in Users :
              Cardinality({i \in EventsAt("user_destroy") : h_events[i].user = u})
                  = IF u \in Range(h_prev.list) THEN 1 ELSE 0
        /\ \A i \in EventsAt("user_destroy") : h_events[i].credentials = "cred_none"
        /\ Cardinality(EventsAt("list_destroy")) = 1
        /\ Cardinality(EventsAt("hub_free")) = 1
        /\ \A i \in EventsAt("list_destroy") :
              /\ h_events[i].len = 0
              /\ \A j \in EventsAt("user_destroy") : j < i
              /\ \A j \in EventsAt("hub_free") : i < j
        /\ users.list = <<>>

\* Shutdown with every user registered, user 1 not the first of them; count
\* is left as it was.
C9_Witness ==
    /\ h_last = "shutdown"
    /\ Len(h_prev.list) = NUsers
    /\ Cardinality(EventsAt("user_destroy")) = NUsers
    /\ h_prev.list[1] # 1
    /\ users.count = NUsers

(***************************************************************************)
(* The statistics sampler.  The network layer counts the bytes sent and    *)
(* received; the timer callback timer_statistics runs                      *)
(* user_manager_update_stats and arms the timer again.                     *)
(***************************************************************************)
ByteCounts == {0, TIMEOUT_STATS - 1, TIMEOUT_STATS, 2 * TIMEOUT_STATS + 1}

Traffic(tx, rx) ==
    /\ h_init.called => h_init.returned
    /\ net.total.tx + tx <= MaxBytes
    /\ net.total.rx + rx <= MaxBytes
    /\ tx + rx > 0
    /\ net' = [intermediate |-> [tx |-> net.intermediate.tx + tx, rx |-> net.intermediate.rx + rx],
               total |-> [tx |-> net.total.tx + tx, rx |-> net.total.rx + rx]]
    /\ h_last' = "traffic"
    /\ UNCHANGED <<users, sid, conn, h_ops, h_addok, h_rmok, h_max, h_prev, h_sids, h_stamp,
                   userVars, outVars, credentials, released, ev_timer, h_events, stats, h_stats,
                   lifeVars, h_trace>>

\* The event loop fires a pending statistics timer: the instance is taken
\* out of the loop and the callback runs.
TimerFire ==
    /\ ev_timer > 0
    /\ LET r == timer_statistics(stats, net, event_fire(ev_timer))
       IN  /\ stats' = r.stats
           /\ net' = r.net
           /\ ev_timer' = r.ev_timer
    /\ h_stats' = [stats |-> stats, intermediate |-> net.intermediate]
    /\ h_tick' = ~h_tick
    /\ h_last' = "update_stats"
    /\ UNCHANGED <<users, sid, conn, h_ops, h_addok, h_rmok, h_max, h_prev, h_sids, h_stamp,
                   userVars, outVars, credentials, released, h_events, hub_users, h_init,
                   h_trace>>

NextStats ==
    \/ \E tx, rx \in ByteCounts : Traffic(tx, rx)
    \/ TimerFire

SpecStats == Init /\ [][NextStats]_vars

(***************************************************************************)
(* Claims about user_manager_update_stats, under SpecStats.                *)
(***************************************************************************)
\* C10: after every user_manager_update_stats call, net_rx_peak equals the
\* maximum of its previous value and the freshly computed net_rx rate,
\* whatever the transmit rate and the transmit peak are.
C10_RxPeakTracksRx ==
    h_last = "update_stats" =>
        stats.net_rx_peak = MAX(h_stats.stats.net_rx_peak, stats.net_rx)

\* C11: across any sequence of user_manager_update_stats calls, net_tx_peak
\* never decreases and after each call is at least the net_tx rate computed
\* by that call.
C11_TxPeakTracksTx ==
    h_last = "update_stats" =>
        /\ stats.net_tx_peak >= h_stats.stats.net_tx_peak
        /\ stats.net_tx_peak >= stats.net_tx

\* C12: each user_manager_update_stats call sets net_tx and net_rx to the
\* collector's since-last-reset byte counts integer-divided by
\* TIMEOUT_STATS, sets net_tx_total and net_rx_total to the cumulative
\* counts, and resets the interval counters, so that a call that follows
\* immediately, with no new traffic, computes rate 0 in both directions.
C12_RatesTotalsReset ==
    h_last = "update_stats" =>
        /\ stats.net_tx * TIMEOUT_STATS <= h_stats.intermediate.tx
        /\ h_stats.intermediate.tx < (stats.net_tx + 1) * TIMEOUT_STATS
        /\ stats.net_rx * TIMEOUT_STATS <= h_stats.intermediate.rx
        /\ h_stats.intermediate.rx < (stats.net_rx + 1) * TIMEOUT_STATS
        /\ stats.net_tx_total = net.total.tx
        /\ stats.net_rx_total = net.total.rx
        /\ net.intermediate = [tx |-> 0, rx |-> 0]
        /\ user_manager_update_stats(stats, net).stats.net_tx = 0
        /\ user_manager_update_stats(stats, net).stats.net_rx = 0

\* A sample of an interval with 2 * TIMEOUT_STATS + 1 bytes sent and
\* TIMEOUT_STATS - 1 received, after an earlier interval with traffic.
C12_Witness ==
    /\ h_last = "update_stats"
    /\ h_stats.intermediate = [tx |-> 2 * TIMEOUT_STATS + 1, rx |-> TIMEOUT_STATS - 1]
    /\ stats.net_tx = 2
    /\ stats.net_rx = 0
    /\ stats.net_rx_total > h_stats.intermediate.rx
    /\ net.intermediate.tx = 0

(***************************************************************************)
(* The hub's life: it boots without a registry, calls user_manager_init    *)
(* once (either allocation may fail), and when that has installed the      *)
(* registry, users register, the event loop fires the timer, and           *)
(* user_manager_shutdown runs once on the users registered by then.  The   *)
(* network layer counts the bytes sent as long as the process lives.       *)
(***************************************************************************)
Boot ==
    /\ users = NoRegistry
    /\ sid = [u \in Users |-> 0]
    /\ conn = {}
    /\ h_ops = 0
    /\ h_addok = TRUE
    /\ h_rmok = TRUE
    /\ h_max = 0
    /\ h_prev = NoRegistry
    /\ h_last = "boot"
    /\ h_sids = <<>>
    /\ h_stamp = [u \in Users |-> 0]
    /\ logged = {}
    /\ flag_user_list = {}
    /\ send_queue_size = [u \in Users |-> 0]
    /\ h_target = NoUser
    /\ h_routed = <<>>
    /\ h_ret = 1
    /\ h_quit = [sid |-> 0, quit_reason |-> "quit_unknown"]
    /\ h_bcast = <<>>
    /\ credentials = [u \in Users |-> "cred_none"]
    /\ released = FALSE
    /\ ev_timer = 0
    /\ h_events = <<>>
    /\ stats = ZeroStats
    /\ net = [intermediate |-> [tx |-> 0, rx |-> 0], total |-> [tx |-> 0, rx |-> 0]]
    /\ h_stats = [stats |-> ZeroStats, intermediate |-> [tx |-> 0, rx |-> 0]]
    /\ hub_users = "NULL"
    /\ h_init = [called |-> FALSE, malloc_ok |-> TRUE, list_ok |-> TRUE,
                 returned |-> FALSE, ret |-> 0, events |-> <<>>]
    /\ h_tick = FALSE
    /\ h_trace = <<>>

InitCall(malloc_ok, list_ok) ==
    /\ ~h_init.called
    /\ LET r == user_manager_init_call(malloc_ok, list_ok, ev_timer)
       IN  /\ users' = r.um
           /\ hub_users' = r.hub_users
           /\ ev_timer' = r.ev_timer
           /\ h_init' = [called |-> TRUE, malloc_ok |-> malloc_ok, list_ok |-> list_ok,
                         returned |-> r.returned, ret |-> r.ret, events |-> r.events]
    /\ h_prev' = users
    /\ h_last' = "init"
    /\ UNCHANGED <<sid, conn, h_ops, h_addok, h_rmok, h_max, h_sids, h_stamp,
                   userVars, outVars, credentials, released, h_events, stats, net, h_stats,
                   h_tick, h_trace>>

\* Bytes sent by the running hub.
Sent(tx) ==
    /\ h_init.returned
    /\ Traffic(tx, 0)

NextLife ==
    \/ \E m, l \in BOOLEAN : InitCall(m, l)
    \/ \E u \in Users : Register(u, "cred_user")
    \/ \E tx \in ByteCounts : Sent(tx)
    \/ TimerFire
    \/ Shutdown

SpecLife == Boot /\ [][NextLife]_vars

\* The event loop runs the callback of a pending timer: it does not leave a
\* timer that is due pending for ever.
SpecLifeFair == SpecLife /\ WF_vars(TimerFire)

(***************************************************************************)
(* Claims about the life of the registry and its timer, under SpecLife.    *)
(***************************************************************************)
InitSucceeded == h_init.called /\ h_init.returned /\ h_init.ret = 0

\* C13: once user_manager_shutdown has returned, no further statistics
\* sample ever fires, and shutdown itself leaves the values computed by the
\* last sample unchanged.
C13_NoSampleAfterShutdown ==
    [][/\ released => /\ stats' = stats
                       /\ h_stats' = h_stats
                       /\ h_tick' = h_tick
                       /\ h_last' # "update_stats"
       /\ (~released /\ released') => stats' = stats]_vars

\* After samples that saw traffic, shutdown has run, and since then the
\* network layer has counted enough bytes for a sample to show a rate.
C13_Witness ==
    /\ released
    /\ h_last = "traffic"
    /\ net.intermediate.tx >= TIMEOUT_STATS
    /\ stats.net_tx_total > 0
    /\ stats.net_tx > 0
    /\ h_tick

\* C14: if either the registry object or its membership collection cannot
\* be created, user_manager_init returns an error value to its caller,
\* installs no registry on the hub and does not arm the statistics timer.
C14_InitFailureReported ==
    (h_init.called /\ ~(h_init.malloc_ok /\ h_init.list_ok)) =>
        /\ h_init.returned
        /\ h_init.ret # 0
        /\ hub_users = "NULL"
        /\ ev_timer = 0

PositionsOf(events, e) == {i \in DOMAIN events : events[i] = e}

\* C17: in every state of the init / timer-fire / shutdown lifecycle a
\* statistics timer is pending only while the registry is installed and not
\* released, and no sample has run otherwise: init installs the registry
\* before it arms the timer, and shutdown cancels the timer before it
\* destroys any user, destroys the list or frees the registry.
C17_TimerOnlyWhileRegistryIntact ==
    /\ ev_timer > 0 => hub_users = "valid" /\ ~released
    /\ h_last = "update_stats" => hub_users = "valid" /\ ~released
    /\ \A i \in PositionsOf(h_init.events, "evtimer_add") :
          \E j \in PositionsOf(h_init.events, "hub_users_set") : j < i
    /\ released =>
          /\ Cardinality(EventsAt("event_del")) = 1
          /\ \A i \in EventsAt("event_del") :
                \A j \in EventsAt("user_destroy") \cup EventsAt("list_destroy")
                            \cup EventsAt("hub_free") : i < j

\* Shutdown of a registry that holds every user, after the timer has fired.
C17_Witness ==
    /\ h_last = "shutdown"
    /\ released
    /\ ev_timer = 0
    /\ h_tick
    /\ Cardinality(EventsAt("user_destroy")) = NUsers
    /\ h_init.events = <<"hub_users_set", "evtimer_add">>

\* C18: between a successful user_manager_init and user_manager_shutdown
\* exactly one instance of the timer is pending in every state outside the
\* callback, and each fire has run user_manager_update_stats once on the
\* counters of the interval.
C18_OneTimerPending ==
    (InitSucceeded /\ ~released) =>
        /\ ev_timer = 1
        /\ h_last = "update_stats" =>
              stats = user_manager_update_stats(
                          h_stats.stats,
                          [intermediate |-> h_stats.intermediate, total |-> net.total]).stats

\* The timer has fired twice, the second time after traffic.
C18_Witness ==
    /\ InitSucceeded
    /\ ~released
    /\ h_last = "update_stats"
    /\ ~h_tick
    /\ h_stats.intermediate.tx >= TIMEOUT_STATS
    /\ h_stats.stats.net_tx_total > 0
    /\ ev_timer = 1

\* C19: after a successful user_manager_init, under fairness of the event
\* loop firing a pending timer, the statistics sample runs infinitely often
\* unless user_manager_shutdown is called.
C19_SamplingNeverStops ==
    /\ []<>(~InitSucceeded \/ released \/ h_tick)
    /\ []<>(~InitSucceeded \/ released \/ ~h_tick)

\* The hub runs, the timer is pending after an odd number of samples.
C19_Witness ==
    /\ InitSucceeded
    /\ ~released
    /\ h_tick
    /\ h_last = "update_stats"
    /\ ev_timer > 0
    /\ users.count = NUsers

(***************************************************************************)
(* Claims about single calls of the registry's API, under SpecApi.         *)
(***************************************************************************)
LastCall == h_trace[Len(h_trace)]

\* The last call was user_manager_remove of a user that was not in the list.
RemovedAbsent ==
    /\ h_trace # <<>>
    /\ LastCall.op = "remove"
    /\ LastCall.user \notin Range(LastCall.before.list)

\* C15 as stated: user_manager_remove applied to a session that is not
\* registered is a no-op: the list, count, count_peak, the shared_size and
\* shared_files totals and free_sid are all unchanged.
C15_Original == RemovedAbsent => users = LastCall.before

\* C15 as amended: user_manager_remove applied to a session that is not
\* registered leaves the list, count_peak and free_sid unchanged, and still
\* decrements count and subtracts the session's limits from the totals
\* (modulo 2^w, the counters being unsigned).
C15_RemoveOfAbsent ==
    RemovedAbsent =>
        /\ users.list = LastCall.before.list
        /\ users.count_peak = LastCall.before.count_peak
        /\ users.free_sid = LastCall.before.free_sid
        /\ users.count = Wrap(LastCall.before.count - 1)
        /\ users.shared_size = Wrap(LastCall.before.shared_size - SharedSizeOf(LastCall.user))
        /\ users.shared_files = Wrap(LastCall.before.shared_files - SharedFilesOf(LastCall.user))

\* One user is registered and another, not registered, has been removed.
C15_Witness ==
    /\ RemovedAbsent
    /\ Len(users.list) = 1
    /\ LastCall.before.count = 1
    /\ users.count = 0
    /\ users.count_peak = 1

\* The last two calls were user_manager_add(s) and user_manager_remove(s)
\* for a user s that was not registered before the add.
AddThenRemove ==
    /\ Len(h_trace) = 2
    /\ h_trace[1].op = "add"
    /\ h_trace[2].op = "remove"
    /\ h_trace[1].user = h_trace[2].user
    /\ h_trace[1].user \notin Range(h_trace[1].before.list)

RoundTripRestores(before) ==
    /\ users.list = before.list
    /\ users.count = before.count
    /\ users.shared_size = before.shared_size
    /\ users.shared_files = before.shared_files
    /\ users.free_sid = before.free_sid

\* C20 as stated: for any registry state and any session s not registered,
\* add(s) followed by remove(s) restores the list, count and both totals,
\* leaves free_sid unchanged and leaves count_peak at
\* max(previous count_peak, previous count + 1).
C20_Original ==
    AddThenRemove =>
        /\ RoundTripRestores(h_trace[1].before)
        /\ users.count_peak = MAX(h_trace[1].before.count_peak, h_trace[1].before.count + 1)

\* C20 as amended: the same, with count_peak left at
\* max(previous count_peak, (previous count + 1) modulo 2^w), count being an
\* unsigned counter of width w.
C20_AddRemoveRoundTrip ==
    AddThenRemove =>
        /\ RoundTripRestores(h_trace[1].before)
        /\ users.count_peak =
              MAX(h_trace[1].before.count_peak, Wrap(h_trace[1].before.count + 1))

\* A third user was added to a registry of two at its peak, and removed.
C20_Witness ==
    /\ AddThenRemove
    /\ h_rmok
    /\ Len(h_trace[1].before.list) = 2
    /\ h_trace[1].before.count_peak = 2
    /\ users.count_peak = 3
    /\ users.count = 2
    /\ users.list = h_trace[1].before.list

(***************************************************************************)
(* Claim about the user-list flag, under SpecList.                         *)
(***************************************************************************)
\* C16: when send_user_list(target) returns, whether the loop completed or
\* stopped on a failure, target's flag_user_list is cleared if
\* target's send_queue_size is zero and set if it is nonzero.
C16_ListFlagFollowsQueue ==
    h_last = "send_user_list" =>
        (h_target \in flag_user_list <=> send_queue_size[h_target] # 0)

\* A send that stopped on a failure with an empty queue cleared the flag,
\* while another target's flag is still set over a queue that is not empty.
C16_Witness ==
    /\ h_last = "send_user_list"
    /\ Failed
    /\ send_queue_size[h_target] = 0
    /\ h_target \notin flag_user_list
    /\ \E t \in Targets \ {h_target} :
          t \in flag_user_list /\ send_queue_size[t] # 0

====
